---- MODULE Spec2Model ----
(***************************************************************************)
(* A model of the RAG orchestration pipeline of rag-petmarket-reviews:     *)
(* RAGAssistant.retrieve_relevant_reviews and RAGAssistant.respond         *)
(* (core/rag_assistant.py), the helpers of core/llm_helpers.py and         *)
(* core/prompt_builder.py, the chat handler (interface/chat_handler.py)    *)
(* and the history clearing of interface/sidebar.py.                       *)
(*                                                                         *)
(* A Python str is a sequence of atoms (TLA+ strings): "" is <<>>, string  *)
(* concatenation is \o, and a literal of the source is one atom.  A float  *)
(* distance or threshold in [0,1] is an integer number of hundredths.  A   *)
(* Python dict is a function whose DOMAIN is the set of its keys.  The     *)
(* accented letters of the source's literals are written without accent.   *)
(***************************************************************************)
EXTENDS Integers, Sequences, FiniteSets, TLC

(***************************************************************************)
(* Bounds of the model.                                                    *)
(***************************************************************************)
\* the number of user inputs handled in one behaviour
MaxTurns == 2
\* the longest list a vector-index response holds
MaxDocs == 2

(***************************************************************************)
(* Python primitives.                                                      *)
(***************************************************************************)
Min(a, b) == IF a < b THEN a ELSE b
Max(a, b) == IF a > b THEN a ELSE b

\* dict.get(k, default)
Get(d, k, default) == IF k \in DOMAIN d THEN d[k] ELSE default

\* seq[start:] with Python's normalisation of a negative start
PySliceFrom(seq, start) ==
  LET n == Len(seq)
      lo == IF start < 0 THEN Max(n + start, 0) ELSE Min(start, n)
  IN  SubSeq(seq, lo + 1, n)

\* "\n".join(texts)
RECURSIVE JoinNL(_)
JoinNL(texts) ==
  IF texts = <<>> THEN <<>>
  ELSE IF Len(texts) = 1 THEN texts[1]
  ELSE texts[1] \o <<"\n">> \o JoinNL(Tail(texts))

\* the sections joined by a single newline, with no blank line between them
JoinBlank_SingleNewline(texts) == JoinNL(texts)

\* "\n\n".join(texts)
RECURSIVE JoinBlank(_)
JoinBlank(texts) ==
  IF texts = <<>> THEN <<>>
  ELSE IF Len(texts) = 1 THEN texts[1]
  ELSE texts[1] \o <<"\n\n">> \o JoinBlank(Tail(texts))

IsSpace(a) == a \in {" ", "\n"}

RECURSIVE LStrip(_)
LStrip(t) == IF t # <<>> /\ IsSpace(t[1]) THEN LStrip(Tail(t)) ELSE t

RECURSIVE RStrip(_)
RStrip(t) ==
  IF t # <<>> /\ IsSpace(t[Len(t)]) THEN RStrip(SubSeq(t, 1, Len(t) - 1)) ELSE t

\* str.strip()
Strip(t) == RStrip(LStrip(t))

\* str.lower() on the atoms the classifier's replies are made of
LowerAtom(a) ==
  CASE a = "SIM" -> "sim"
    [] a = "Sim" -> "sim"
    [] a = "NAO" -> "nao"
    [] OTHER -> a

Lower(t) == [i \in 1..Len(t) |-> LowerAtom(t[i])]

\* a message of langchain_core.messages: its type and its content
\* the assistant's turn stored as a turn of the user
AIMessage_AsHuman(content) == [type |-> "human", content |-> content]

HumanMessage(content) == [type |-> "human", content |-> content]
AIMessage(content) == [type |-> "ai", content |-> content]

Contents(msgs) == [i \in 1..Len(msgs) |-> msgs[i].content]

(***************************************************************************)
(* core/llm_helpers.py                                                     *)
(***************************************************************************)
\* count_tokens: the tokenizer gives one token per atom
count_tokens(text) == Len(text)

\* the prompt needs_history_context sends
check_prompt(q, last) ==
  <<"O usuario fez a pergunta: \"">> \o q
    \o <<"\"\n\nEla depende do seguinte historico para ser compreendida?\nHistorico:\n\"">>
    \o last \o <<"\"\n\nResponda apenas com \"SIM\" ou \"NAO\".">>

\* the outcome of an external call: it returns a value or it raises
Returned(v) == [raised |-> FALSE, value |-> v]
Raised == [raised |-> TRUE]

\* needs_history_context with a failed call taken as a need for history
needs_history_context_TrueOnError(reply) ==
  IF reply.raised THEN TRUE
  ELSE \E i \in 1..Len(reply.value) : Lower(Strip(reply.value))[i] = "sim"

\* needs_history_context, given the outcome of its llm_client.invoke
needs_history_context(reply) ==
  IF reply.raised THEN FALSE
  ELSE \E i \in 1..Len(reply.value) : Lower(Strip(reply.value))[i] = "sim"

\* fix_markdown_response with nothing returned when the call fails
fix_markdown_response_EmptyOnError(raw_response, reply) ==
  IF reply.raised THEN <<>> ELSE reply.value

\* fix_markdown_response, given the outcome of its llm_client.invoke
fix_markdown_response(raw_response, reply) ==
  IF reply.raised THEN raw_response ELSE reply.value

(***************************************************************************)
(* core/prompt_builder.py                                                  *)
(* A configured value is a tagged union of the shapes the renderer tells   *)
(* apart: [kind |-> "list", items], [kind |-> "dict", items] (a sequence   *)
(* of <<key, value>> pairs) and [kind |-> "str", value] (a text).  The     *)
(* strings of reasoning_strategies are single atoms, "" when empty.        *)
(***************************************************************************)
\* a configured string (one atom, "" when empty) as a text
TextOf(s) == IF s = "" THEN <<>> ELSE <<s>>

ListOf(items) == [kind |-> "list", items |-> items]
StrOf(text) == [kind |-> "str", value |-> text]
DictOf(pairs) == [kind |-> "dict", items |-> pairs]

format_prompt_section(title, content) ==
  IF content.kind = "list"
    THEN <<title, "\n">>
           \o JoinNL([i \in 1..Len(content.items) |-> <<"- ">> \o content.items[i]])
  ELSE IF content.kind = "dict"
    THEN <<title, "\n">>
           \o JoinNL([i \in 1..Len(content.items) |->
                        <<"- ">> \o content.items[i][1] \o <<": ">> \o content.items[i][2]])
  ELSE <<title, "\n", "- ">> \o content.value

\* the fallback guard with the strategy named as default in place of "CoT"
CoTFallback_DefaultNamed(app_cfg) ==
  /\ DOMAIN app_cfg # {}
  /\ "reasoning_strategies" \in DOMAIN app_cfg
  /\ "CoT" \in DOMAIN app_cfg["reasoning_strategies"]
  /\ Get(app_cfg["reasoning_strategies"], "default", "CoT") = "CoT"

\* the guard of the fallback branch of build_prompt_from_config
CoTFallback(app_cfg) ==
  /\ DOMAIN app_cfg # {}
  /\ "reasoning_strategies" \in DOMAIN app_cfg
  /\ "CoT" \in DOMAIN app_cfg["reasoning_strategies"]

\* the Reasoning Strategy sections build_prompt_from_config appends (none or one)
reasoning_sections(app_cfg, reasoning_instruction) ==
  IF reasoning_instruction # ""
    THEN << format_prompt_section("Reasoning Strategy:", StrOf(TextOf(reasoning_instruction))) >>
  ELSE IF CoTFallback(app_cfg)
    THEN << format_prompt_section("Reasoning Strategy:",
                                  StrOf(TextOf(app_cfg["reasoning_strategies"]["CoT"]))) >>
  ELSE <<>>

\* the Context section with a placeholder body when there are no documents
context_section_Placeholder(documents) ==
  <<"Context:\n">> \o (IF documents = <<>> THEN <<"(no reviews)">> ELSE JoinNL(documents))

\* "Context:\n" + "\n".join(documents)
context_section(documents) == <<"Context:\n">> \o JoinNL(documents)

build_prompt_from_config(config, documents, q, app_cfg, reasoning_instruction) ==
  JoinBlank(
    << format_prompt_section("Role:", Get(config, "role", StrOf(<<>>))),
       format_prompt_section("Style / Tone:", Get(config, "style_or_tone", ListOf(<<>>))),
       format_prompt_section("Instruction:", Get(config, "instruction", StrOf(<<>>))),
       format_prompt_section("Output Constraints:",
                             Get(config, "output_constraints", ListOf(<<>>))),
       format_prompt_section("Output Format:", Get(config, "output_format", ListOf(<<>>))) >>
    \o reasoning_sections(app_cfg, reasoning_instruction)
    \o << context_section(documents),
          <<"User's question:\n">> \o q >>)

(***************************************************************************)
(* RAGAssistant.format_review and RAGAssistant.retrieve_relevant_reviews   *)
(***************************************************************************)
format_review(doc, meta) ==
  << Get(meta, "name", "Unknown name"), " (Rating: ", Get(meta, "place_rating", "N/A"),
     ") -- ", Get(meta, "street", "No street provided"), ", ",
     Get(meta, "neighborhood", "No neighborhood provided"), ", ",
     Get(meta, "city", "No city provided"), "\nReview: " >> \o Strip(doc)

\* the filter test with the boundary let through
UnderThreshold_OrEqual(dist, threshold) == dist <= threshold

\* the test of the filter loop
UnderThreshold(dist, threshold) == dist < threshold

\* the filter loop over zip(documents, distances, metadatas)
RECURSIVE FilterZip(_, _, _, _)
FilterZip(docs, dists, metas, threshold) ==
  IF docs = <<>> \/ dists = <<>> \/ metas = <<>> THEN <<>>
  ELSE (IF UnderThreshold(dists[1], threshold)
          THEN << format_review(docs[1], metas[1]) >> ELSE <<>>)
       \o FilterZip(Tail(docs), Tail(dists), Tail(metas), threshold)

\* results[key][0]: raises KeyError on a missing key, IndexError on an empty list
Subscript0Raises(results, key) == key \notin DOMAIN results \/ results[key] = <<>>

\* the except branch with the error passed on to the caller
OnQueryError_Propagates == Raised

\* the except branch around the embedding and the query: log, return []
OnQueryError == Returned(<<>>)

\* retrieve_relevant_reviews, given the outcome of embedding and collection.query
retrieve_relevant_reviews(outcome, threshold) ==
  IF outcome.raised THEN OnQueryError
  ELSE LET results == outcome.value IN
    IF Get(results, "documents", <<>>) = <<>> \/ results["documents"][1] = <<>>
      THEN Returned(<<>>)
    ELSE IF Subscript0Raises(results, "distances") \/ Subscript0Raises(results, "metadatas")
      THEN Raised
    ELSE Returned(FilterZip(results["documents"][1], results["distances"][1],
                            results["metadatas"][1], threshold))

(***************************************************************************)
(* The inputs: configurations, queries, and what the collaborators answer. *)
(***************************************************************************)
Sessions == {"default", "other"}

Queries == { <<"q1">>, <<"q2">> }

\* config/app_config.yaml as loaded: each section may be absent
NoSection == <<>>

VectorDbSections ==
  { NoSection,
    [vectordb |-> [threshold |-> 30, n_results |-> 2]],
    [vectordb |-> [threshold |-> 40, n_results |-> 1]] }

MemorySections ==
  { NoSection,
    [memory_strategies |-> [trimming_window_size |-> 1, summarization_max_tokens |-> 3]],
    [memory_strategies |-> [trimming_window_size |-> 1, summarization_max_tokens |-> 2]],
    [memory_strategies |-> [trimming_window_size |-> 0, summarization_max_tokens |-> 2]],
    [memory_strategies |-> [trimming_window_size |-> 2, summarization_max_tokens |-> 5]] }

ReasoningSections ==
  { NoSection,
    [reasoning_strategies |-> [default |-> "CoT", CoT |-> "think step by step"]],
    [reasoning_strategies |-> [default |-> "ToT", CoT |-> "think step by step",
                               ToT |-> "explore branches"]],
    [reasoning_strategies |-> [default |-> "ToT", CoT |-> "think step by step"]],
    [reasoning_strategies |-> [default |-> "ToT", CoT |-> "think step by step", ToT |-> ""]],
    [reasoning_strategies |-> [default |-> "ToT", ToT |-> "explore branches"]],
    [reasoning_strategies |-> [default |-> "CoT", CoT |-> ""]],
    [reasoning_strategies |-> [CoT |-> "think step by step"]],
    [reasoning_strategies |-> [default |-> "ToT"]] }

BaseVectorDb == [vectordb |-> [threshold |-> 30, n_results |-> 2]]
BaseMemory ==
  [memory_strategies |-> [trimming_window_size |-> 1, summarization_max_tokens |-> 3]]
BaseReasoning == [reasoning_strategies |-> [default |-> "CoT", CoT |-> "think step by step"]]

\* every configuration
AllAppConfigs ==
  { v @@ m @@ r : v \in VectorDbSections, m \in MemorySections, r \in ReasoningSections }

\* the configurations the whole pipeline is run on: one section varies, the others
\* are the base
AppConfigs ==
  { v @@ BaseMemory @@ BaseReasoning : v \in VectorDbSections }
  \cup { BaseVectorDb @@ m @@ BaseReasoning : m \in MemorySections }
  \cup { BaseVectorDb @@ BaseMemory @@ r :
           r \in { NoSection,
                   [reasoning_strategies |-> [default |-> "ToT", CoT |-> "think step by step"]] } }

\* config/prompt_config.yaml, key rag_assistant_prompt
FullPromptConfig ==
  [ role |-> StrOf(<<"assistant">>),
    style_or_tone |-> ListOf(<< <<"friendly">>, <<"concise">> >>),
    instruction |-> StrOf(<<"answer from the reviews">>),
    output_constraints |-> ListOf(<< <<"no speculation">> >>),
    output_format |-> ListOf(<< <<"markdown">> >>) ]

PromptConfigs == { FullPromptConfig }

\* the fields build_prompt_from_config reads, and the empty value of each
PromptFields == { "role", "style_or_tone", "instruction", "output_constraints", "output_format" }

EmptyOf(field) == IF field \in { "role", "instruction" } THEN StrOf(<<>>) ELSE ListOf(<<>>)

\* a prompt configuration without a key
Without(config, field) == [k \in DOMAIN config \ { field } |-> config[k]]

\* the prompt configurations build_prompt_from_config is run on: the full one,
\* one with each field absent or empty, one with a mapping or an empty mapping
\* for a field, and the empty configuration
AllPromptConfigs ==
  { FullPromptConfig, NoSection }
    \cup { Without(FullPromptConfig, f) : f \in PromptFields }
    \cup { [FullPromptConfig EXCEPT ![f] = EmptyOf(f)] : f \in PromptFields }
    \cup { [FullPromptConfig EXCEPT !["output_format"] = DictOf(pairs)] :
             pairs \in { <<>>, << << <<"style">>, <<"markdown">> >> >> } }

\* the n_results and threshold the sidebar passes to respond
CallerArgs == { [n_results |-> 2, threshold |-> 30], [n_results |-> 7, threshold |-> 90] }

\* the sequences over S of length at most n
SeqUpTo(S, n) == UNION { [1..k -> S] : k \in 0..n }

Docs == { <<"d1">>, <<" ", "d2", "\n">> }
Dists == { 20, 30, 40 }
FullMeta ==
  [name |-> "Pet A", place_rating |-> "4.5", street |-> "Rua 1",
   neighborhood |-> "Centro", city |-> "SP"]
Metas == { <<>>, FullMeta }

\* a field of a query response: missing, an empty outer list, or one inner list
Field(key, S, n) ==
  { <<>> } \cup { (key :> outer) : outer \in { <<>> } \cup { <<l>> : l \in SeqUpTo(S, n) } }

\* every shape of response the index may hand back
AllResponses(n) ==
  { d @@ e @@ m : d \in Field("documents", Docs, n), e \in Field("distances", Dists, n),
                  m \in Field("metadatas", Metas, n) }

\* a response of parallel lists, as collection.query documents it
WellFormed(results) ==
  /\ DOMAIN results = {"documents", "distances", "metadatas"}
  /\ \A k \in DOMAIN results : Len(results[k]) = 1
  /\ Len(results["documents"][1]) = Len(results["distances"][1])
  /\ Len(results["documents"][1]) = Len(results["metadatas"][1])

\* whether the index may answer r to a query for n results
Answers(r, n) == WellFormed(r) => Len(r["documents"][1]) <= Max(n, 0)

\* collection.query(n_results = n): it raises, or answers; a well-formed answer
\* holds at most n results
QueryOutcomes(n) ==
  { Raised } \cup { Returned(r) : r \in { x \in AllResponses(MaxDocs) : Answers(x, n) } }

\* the answers of the index the whole pipeline is run on
PipelineResponses ==
  { [documents |-> << <<>> >>, distances |-> << <<>> >>, metadatas |-> << <<>> >>],
    [documents |-> << << <<"d1">> >> >>, distances |-> << <<20>> >>,
     metadatas |-> << <<FullMeta>> >>],
    [documents |-> << << <<"d1">>, <<" ", "d2", "\n">> >> >>, distances |-> << <<20, 30>> >>,
     metadatas |-> << <<FullMeta, <<>> >> >>],
    [documents |-> << << <<"d1">> >> >>, metadatas |-> << <<FullMeta>> >>] }

PipelineOutcomes(n) ==
  { Raised } \cup { Returned(r) : r \in { x \in PipelineResponses : Answers(x, n) } }

\* langdetect.detect: a language code, or it raises
DetectOutcomes == { Returned("pt"), Returned("en"), Raised }

\* llm_client.invoke for the summary, the history check, the answer, the Markdown repair
SummaryReplies == { Returned(<<" ", "s1", "\n">>), Raised }
ClassifierReplies == { Returned(<<"SIM">>), Returned(<<" ", "Sim", "\n">>),
                       Returned(<<"NAO">>), Raised }
MainReplies == { Returned(<<"a1">>), Raised }
MarkdownReplies(text) == { Returned(<<"md:">> \o text), Raised }

\* the language codes of the model; "unknown" is none
LanguageCodes == { "pt", "en" }

\* GoogleTranslator(source='auto', target=target_lang).translate(text): a text
\* depending on text and target, or it raises; the constructor takes a target
\* only if it is a language it supports and raises otherwise
TranslateOutcomes(text, target_lang) ==
  IF target_lang \in LanguageCodes
    THEN { Returned(<<"tr:", target_lang>> \o text), Raised }
    ELSE { Raised }

(***************************************************************************)
(* The state.                                                              *)
(***************************************************************************)
VARIABLES
  store,           \* message_store: the messages of each session, in insertion order
  app_config,      \* RAGAssistant.app_config
  prompt_config,   \* RAGAssistant.prompt_config
  turns,           \* the number of user inputs handled so far
  pc,              \* where the handled input is: "idle" between inputs
  session,         \* the session of the input being handled
  query,           \* user_input
  detected_lang,   \* respond's locals, by their names in the source
  params,          \* respond's parameters n_results and threshold
  index_outcome,   \* what embedding and collection.query did
  retrieved,       \* what retrieve_relevant_reviews did: a returned list, or raised
  past_messages,
  chat_history,
  chat_text,
  last_turn,
  use_history,
  context,
  reasoning_instruction,
  prompt,
  full_messages,
  llm_response,
  answer,          \* respond's return value
  error,           \* the stage whose exception left respond, "" when none
  response,        \* handle_user_input's response
  calls,           \* the external calls of this input, counted by purpose
  caught,          \* the calls whose exception respond caught and logged
  classifier_prompt \* the prompt of the history-classifier call

locals ==
  << detected_lang, params, index_outcome, retrieved, past_messages, chat_history,
     chat_text, last_turn, use_history, context, reasoning_instruction, prompt,
     full_messages, llm_response, answer, error, response, calls, caught,
     classifier_prompt >>

vars == << store, app_config, prompt_config, turns, pc, session, query, locals >>

NoCalls == [summary |-> 0, classifier |-> 0, main |-> 0, translate |-> 0, markdown |-> 0]
NoArgs == [n_results |-> 0, threshold |-> 0]

\* the locals before respond has set them
FreshLocals ==
  /\ detected_lang = ""
  /\ index_outcome = Raised
  /\ retrieved = Returned(<<>>)
  /\ past_messages = <<>>
  /\ chat_history = <<>>
  /\ chat_text = <<>>
  /\ last_turn = <<>>
  /\ use_history = FALSE
  /\ context = <<>>
  /\ reasoning_instruction = ""
  /\ prompt = <<>>
  /\ full_messages = <<>>
  /\ llm_response = <<>>
  /\ answer = <<>>
  /\ error = ""
  /\ response = <<>>
  /\ calls = NoCalls
  /\ caught = {}
  /\ classifier_prompt = <<>>

Init ==
  /\ store = [s \in Sessions |-> <<>>]
  /\ app_config \in AppConfigs
  /\ prompt_config \in PromptConfigs
  /\ turns = 0
  /\ pc = "idle"
  /\ session = "default"
  /\ query = <<>>
  /\ params = NoArgs
  /\ FreshLocals

(***************************************************************************)
(* interface/chat_handler.py: handle_user_input takes a non-empty input.   *)
(***************************************************************************)
HandleUserInput(s, q, a) ==
  /\ pc = "idle"
  /\ turns < MaxTurns
  /\ turns' = turns + 1
  /\ session' = s
  /\ query' = q
  /\ params' = a
  /\ pc' = "detect"
  /\ UNCHANGED << store, app_config, prompt_config, detected_lang, index_outcome,
                  retrieved, past_messages, chat_history, chat_text, last_turn,
                  use_history, context, reasoning_instruction, prompt, full_messages,
                  llm_response, answer, error, response, calls, caught,
                  classifier_prompt >>

(***************************************************************************)
(* RAGAssistant.respond, one action per stage.                             *)
(***************************************************************************)
\* the stages in an order that builds the prompt before the history decision
StageAfter_BuildBeforeDecision(stage) ==
  CASE stage = "detect" -> "retrieve"
    [] stage = "retrieve" -> "load"
    [] stage = "load" -> "summarize"
    [] stage = "summarize" -> "build"
    [] stage = "build" -> "decide"
    [] stage = "decide" -> "generate"
    [] stage = "generate" -> "translate"
    [] stage = "translate" -> "markdown"
    [] stage = "markdown" -> "returned"

\* the statement of respond that follows a stage that has ended normally
StageAfter(stage) ==
  CASE stage = "detect" -> "retrieve"
    [] stage = "retrieve" -> "load"
    [] stage = "load" -> "summarize"
    [] stage = "summarize" -> "decide"
    [] stage = "decide" -> "build"
    [] stage = "build" -> "generate"
    [] stage = "generate" -> "translate"
    [] stage = "translate" -> "markdown"
    [] stage = "markdown" -> "returned"

\* utils/translator.py
detect_language(outcome) == IF outcome.raised THEN "unknown" ELSE outcome.value

DetectLanguage(outcome) ==
  /\ pc = "detect"
  /\ detected_lang' = detect_language(outcome)
  /\ pc' = StageAfter("detect")
  /\ UNCHANGED << store, app_config, prompt_config, turns, session, query, params,
                  index_outcome, retrieved, past_messages, chat_history, chat_text,
                  last_turn, use_history, context, reasoning_instruction, prompt,
                  full_messages, llm_response, answer, error, response, calls, caught,
                  classifier_prompt >>

\* the defaults of the app_config lookups
DefaultThreshold == 30
DefaultNResults == 5
DefaultWindowSize == 6
DefaultMaxTokens == 1000

\* the retrieval arguments taken as the caller passed them
RetrievalArgs_FromCaller(cfg, caller) == caller

\* respond overwrites its parameters threshold and n_results from app_config:
\* what the caller passed is dropped
RetrievalArgs(cfg, caller) ==
  [ n_results |-> Get(Get(cfg, "vectordb", <<>>), "n_results", DefaultNResults),
    threshold |-> Get(Get(cfg, "vectordb", <<>>), "threshold", DefaultThreshold) ]

Retrieve ==
  /\ pc = "retrieve"
  /\ params' = RetrievalArgs(app_config, params)
  /\ \E outcome \in PipelineOutcomes(params'.n_results) :
       /\ index_outcome' = outcome
       /\ retrieved' = retrieve_relevant_reviews(outcome, params'.threshold)
       /\ caught' = IF outcome.raised THEN caught \cup {"query"} ELSE caught
  /\ IF retrieved'.raised
       THEN pc' = "raised" /\ error' = "retrieve"
       ELSE pc' = StageAfter("retrieve") /\ error' = error
  /\ UNCHANGED << store, app_config, prompt_config, turns, session, query,
                  detected_lang, past_messages, chat_history, chat_text, last_turn,
                  use_history, context, reasoning_instruction, prompt, full_messages,
                  llm_response, answer, response, calls, classifier_prompt >>

\* past_messages[-(window_size * 2):]
Window(msgs, window_size) == PySliceFrom(msgs, -(window_size * 2))

WindowSize(cfg) ==
  Get(Get(cfg, "memory_strategies", <<>>), "trimming_window_size", DefaultWindowSize)

MaxTokens(cfg) ==
  Get(Get(cfg, "memory_strategies", <<>>), "summarization_max_tokens", DefaultMaxTokens)

LoadMemory ==
  /\ pc = "load"
  /\ past_messages' = store[session]
  /\ chat_history' = Window(past_messages', WindowSize(app_config))
  /\ chat_text' = JoinNL(Contents(chat_history'))
  /\ pc' = StageAfter("load")
  /\ UNCHANGED << store, app_config, prompt_config, turns, session, query,
                  detected_lang, params, index_outcome, retrieved, last_turn,
                  use_history, context, reasoning_instruction, prompt, full_messages,
                  llm_response, answer, error, response, calls, caught,
                  classifier_prompt >>

\* the summarization test with the boundary included
OverBudget_OrEqual(total_tokens, max_tokens) == total_tokens >= max_tokens

\* the test that starts the summarization
OverBudget(total_tokens, max_tokens) == total_tokens > max_tokens

SummaryMarker == "Summary of previous conversation:\n"

\* the summarization with the history dropped when the call fails
Summarized_DropsOnFailure(history, reply) ==
  IF reply.raised THEN <<>>
  ELSE << HumanMessage(<<SummaryMarker>> \o Strip(reply.value)) >>

\* chat_history after the try block around the summarization call
Summarized(history, reply) ==
  IF reply.raised THEN history
  ELSE << HumanMessage(<<SummaryMarker>> \o Strip(reply.value)) >>

\* the stored history overwritten with the view respond works on
StoredAfterView_WrittenBack(stored, view) == view

\* the window and the summary are new lists bound to a local name: the stored
\* history is what it was
StoredAfterView(stored, view) == stored

Summarize ==
  /\ pc = "summarize"
  /\ IF OverBudget(count_tokens(chat_text), MaxTokens(app_config))
       THEN \E reply \in SummaryReplies :
              /\ chat_history' = Summarized(chat_history, reply)
              /\ calls' = [calls EXCEPT !.summary = @ + 1]
              /\ caught' = IF reply.raised THEN caught \cup {"summary"} ELSE caught
       ELSE UNCHANGED << chat_history, calls, caught >>
  /\ store' = [store EXCEPT ![session] = StoredAfterView(@, chat_history')]
  /\ pc' = StageAfter("summarize")
  /\ UNCHANGED << app_config, prompt_config, turns, session, query,
                  detected_lang, params, index_outcome, retrieved, past_messages,
                  chat_text, last_turn, use_history, context, reasoning_instruction,
                  prompt, full_messages, llm_response, answer, error, response,
                  classifier_prompt >>

\* the last turn taken as the last message alone
LastTurn_OneMessage(msgs) == IF Len(msgs) >= 2 THEN msgs[Len(msgs)].content ELSE <<>>

\* the text of the last question and answer
LastTurn(msgs) == IF Len(msgs) >= 2 THEN JoinNL(Contents(PySliceFrom(msgs, -2))) ELSE <<>>

DecideHistory ==
  /\ pc = "decide"
  /\ last_turn' = LastTurn(past_messages)
  /\ IF last_turn' # <<>>
       THEN \E reply \in ClassifierReplies :
              /\ use_history' = needs_history_context(reply)
              /\ classifier_prompt' = check_prompt(query, last_turn')
              /\ calls' = [calls EXCEPT !.classifier = @ + 1]
              /\ caught' = IF reply.raised THEN caught \cup {"classifier"} ELSE caught
       ELSE /\ use_history' = FALSE
            /\ UNCHANGED << classifier_prompt, calls, caught >>
  /\ pc' = StageAfter("decide")
  /\ UNCHANGED << store, app_config, prompt_config, turns, session, query,
                  detected_lang, params, index_outcome, retrieved, past_messages,
                  chat_history, chat_text, context, reasoning_instruction, prompt,
                  full_messages, llm_response, answer, error, response >>

\* the context string respond builds
Context(reviews, use_hist, last, q) ==
  IF use_hist
    THEN JoinNL(reviews) \o <<"\n\n", "Historico:\n">> \o last
           \o <<"\n\n", "Nova pergunta:\n">> \o q
    ELSE JoinNL(reviews) \o <<"\n\n", "Pergunta:\n">> \o q

\* the reasoning instruction respond resolves from app_config
ReasoningInstruction(cfg) ==
  LET strategies == Get(cfg, "reasoning_strategies", <<>>)
      strategy_name == Get(strategies, "default", "CoT")
  IN  Get(strategies, strategy_name, "")

BuildPrompt ==
  /\ pc = "build"
  /\ context' = Context(retrieved.value, use_history, last_turn, query)
  /\ reasoning_instruction' = ReasoningInstruction(app_config)
  /\ prompt' = build_prompt_from_config(prompt_config, retrieved.value, query, app_config,
                                        reasoning_instruction')
  /\ pc' = StageAfter("build")
  /\ UNCHANGED << store, app_config, prompt_config, turns, session, query,
                  detected_lang, params, index_outcome, retrieved, past_messages,
                  chat_history, chat_text, last_turn, use_history, full_messages,
                  llm_response, answer, error, response, calls, caught,
                  classifier_prompt >>

\* the messages of the main LLM call taken from the windowed, summarized history
FullMessages_FromView(past, history, p) == history \o << HumanMessage(p) >>

\* the messages of the main LLM call: past_messages + [HumanMessage(prompt)];
\* chat_history is no part of it
FullMessages(past, history, p) == past \o << HumanMessage(p) >>

Generate(reply) ==
  /\ pc = "generate"
  /\ full_messages' = FullMessages(past_messages, chat_history, prompt)
  /\ calls' = [calls EXCEPT !.main = @ + 1]
  /\ IF reply.raised
       THEN pc' = "raised" /\ error' = "generate" /\ llm_response' = llm_response
       ELSE pc' = StageAfter("generate") /\ error' = error /\ llm_response' = reply.value
  /\ UNCHANGED << store, app_config, prompt_config, turns, session, query,
                  detected_lang, params, index_outcome, retrieved, past_messages,
                  chat_history, chat_text, last_turn, use_history, context,
                  reasoning_instruction, prompt, answer, response, caught,
                  classifier_prompt >>

\* the translation test with "unknown" taken as nothing to translate to
NeedsTranslation_UnknownSkipped(lang) == lang \notin {"pt", "unknown"}

\* the translation test with every language translated
NeedsTranslation_Always(lang) == TRUE

\* if detected_lang != "pt"
NeedsTranslation(lang) == lang # "pt"

\* the optional translation; Portuguese answers are returned as they are
Translate ==
  /\ pc = "translate"
  /\ IF NeedsTranslation(detected_lang)
       THEN \E tr \in TranslateOutcomes(llm_response, detected_lang) :
              /\ calls' = [calls EXCEPT !.translate = @ + 1]
              /\ IF tr.raised
                   THEN pc' = "raised" /\ error' = "translate" /\ answer' = answer
                   ELSE pc' = StageAfter("translate") /\ error' = error /\ answer' = tr.value
       ELSE /\ pc' = "returned"
            /\ answer' = llm_response
            /\ UNCHANGED << calls, error >>
  /\ UNCHANGED << store, app_config, prompt_config, turns, session, query,
                  detected_lang, params, index_outcome, retrieved, past_messages,
                  chat_history, chat_text, last_turn, use_history, context,
                  reasoning_instruction, prompt, full_messages, llm_response, response,
                  caught, classifier_prompt >>

\* fix_markdown_response on the translated text
FixMarkdown ==
  /\ pc = "markdown"
  /\ \E reply \in MarkdownReplies(answer) :
       /\ answer' = fix_markdown_response(answer, reply)
       /\ caught' = IF reply.raised THEN caught \cup {"markdown"} ELSE caught
  /\ calls' = [calls EXCEPT !.markdown = @ + 1]
  /\ pc' = StageAfter("markdown")
  /\ UNCHANGED << store, app_config, prompt_config, turns, session, query,
                  detected_lang, params, index_outcome, retrieved, past_messages,
                  chat_history, chat_text, last_turn, use_history, context,
                  reasoning_instruction, prompt, full_messages, llm_response, error,
                  response, classifier_prompt >>

(***************************************************************************)
(* interface/chat_handler.py: the rest of handle_user_input.               *)
(***************************************************************************)
ErrorMessage == <<"Sorry, an error occurred while processing your question.">>

\* response after the try block around rag.respond
HandlerResponse(respond_raised, returned) == IF respond_raised THEN ErrorMessage ELSE returned

\* respond has returned or raised: its locals are gone
RespondEnded ==
  /\ pc \in {"returned", "raised"}
  /\ response' = HandlerResponse(pc = "raised", answer)
  /\ pc' = "save_user"
  /\ detected_lang' = ""
  /\ params' = NoArgs
  /\ index_outcome' = Raised
  /\ retrieved' = Returned(<<>>)
  /\ past_messages' = <<>>
  /\ chat_history' = <<>>
  /\ chat_text' = <<>>
  /\ last_turn' = <<>>
  /\ use_history' = FALSE
  /\ context' = <<>>
  /\ reasoning_instruction' = ""
  /\ prompt' = <<>>
  /\ full_messages' = <<>>
  /\ llm_response' = <<>>
  /\ answer' = <<>>
  /\ calls' = NoCalls
  /\ caught' = {}
  /\ classifier_prompt' = <<>>
  /\ UNCHANGED << store, app_config, prompt_config, turns, session, query, error >>

\* a message stored ahead of the history
add_message_AtHead(history, message) == << message >> \o history

\* chat_memory.add_user_message, chat_memory.add_ai_message: one more row
add_message(history, message) == Append(history, message)

\* memory.chat_memory.add_user_message(user_input)
AddUserMessage ==
  /\ pc = "save_user"
  /\ store' = [store EXCEPT ![session] = add_message(@, HumanMessage(query))]
  /\ pc' = "save_ai"
  /\ UNCHANGED << app_config, prompt_config, turns, session, query, locals >>

\* memory.chat_memory.add_ai_message(response), and the rerun of the script
AddAIMessage ==
  /\ pc = "save_ai"
  /\ store' = [store EXCEPT ![session] = add_message(@, AIMessage(response))]
  /\ pc' = "idle"
  /\ error' = ""
  /\ response' = <<>>
  /\ UNCHANGED << app_config, prompt_config, turns, session, query, detected_lang,
                  params, index_outcome, retrieved, past_messages, chat_history,
                  chat_text, last_turn, use_history, context, reasoning_instruction,
                  prompt, full_messages, llm_response, answer, calls, caught,
                  classifier_prompt >>

(***************************************************************************)
(* interface/sidebar.py: DELETE FROM message_store WHERE session_id = s    *)
(***************************************************************************)
\* the deletion with the two oldest rows of the session alone deleted
DeleteSession_OldestTurn(st, s) == [st EXCEPT ![s] = SubSeq(@, 3, Len(@))]

\* the deletion without its WHERE clause: the rows of every session deleted
DeleteSession_EverySession(st, s) == [t \in DOMAIN st |-> <<>>]

\* DELETE FROM message_store WHERE session_id = s
DeleteSession(st, s) == [st EXCEPT ![s] = <<>>]

\* a session is cleared between two turns, or while the turn of another
\* session is in flight
clear_chat_history(s) ==
  /\ pc = "idle" \/ s # session
  /\ store' = DeleteSession(store, s)
  /\ UNCHANGED << app_config, prompt_config, turns, pc, session, query, locals >>

Next ==
  \/ \E s \in Sessions, q \in Queries, a \in CallerArgs : HandleUserInput(s, q, a)
  \/ \E o \in DetectOutcomes : DetectLanguage(o)
  \/ Retrieve
  \/ LoadMemory
  \/ Summarize
  \/ DecideHistory
  \/ BuildPrompt
  \/ \E r \in MainReplies : Generate(r)
  \/ Translate
  \/ FixMarkdown
  \/ RespondEnded
  \/ AddUserMessage
  \/ AddAIMessage
  \/ \E s \in Sessions : clear_chat_history(s)

Spec == Init /\ [][Next]_vars

(***************************************************************************)
(* retrieve_relevant_reviews alone: every threshold, every n_results and   *)
(* every shape of index response of at most MaxDocs entries per list.      *)
(***************************************************************************)
Thresholds == { 0, 30, 40, 100 }
NResults == (-1)..MaxDocs

InitRetrieve ==
  /\ store = [s \in Sessions |-> <<>>]
  /\ app_config = BaseVectorDb @@ BaseMemory @@ BaseReasoning
  /\ prompt_config = FullPromptConfig
  /\ turns = 0
  /\ pc = "call"
  /\ session = "default"
  /\ query \in Queries
  /\ params \in [n_results : NResults, threshold : Thresholds]
  /\ FreshLocals

\* retrieve_relevant_reviews(query, n_results, threshold)
RetrieveCall ==
  /\ pc = "call"
  /\ \E outcome \in QueryOutcomes(params.n_results) :
       /\ index_outcome' = outcome
       /\ retrieved' = retrieve_relevant_reviews(outcome, params.threshold)
       /\ caught' = IF outcome.raised THEN caught \cup {"query"} ELSE caught
  /\ pc' = "called"
  /\ UNCHANGED << store, app_config, prompt_config, turns, session, query, detected_lang,
                  params, past_messages, chat_history, chat_text, last_turn, use_history,
                  context, reasoning_instruction, prompt, full_messages, llm_response,
                  answer, error, response, calls, classifier_prompt >>

NextRetrieve == RetrieveCall

SpecRetrieve == InitRetrieve /\ [][NextRetrieve]_vars

(***************************************************************************)
(* build_prompt_from_config alone, called with any explicit instruction,   *)
(* and as respond calls it, over every configuration.                      *)
(***************************************************************************)
ExplicitInstructions == { "", "answer briefly" }

DocumentLists ==
  { <<>>, << format_review(<<"d1">>, FullMeta) >>,
    << format_review(<<"d1">>, FullMeta), format_review(<<" ", "d2", "\n">>, <<>>) >> }

InitPrompt ==
  /\ store = [s \in Sessions |-> <<>>]
  /\ app_config \in AllAppConfigs \cup { NoSection }
  /\ prompt_config \in AllPromptConfigs
  /\ turns = 0
  /\ pc = "build"
  /\ session = "default"
  /\ query \in Queries
  /\ params = NoArgs
  /\ detected_lang = ""
  /\ index_outcome = Raised
  /\ retrieved \in { Returned(d) : d \in DocumentLists }
  /\ past_messages = <<>>
  /\ chat_history = <<>>
  /\ chat_text = <<>>
  /\ last_turn = <<>>
  /\ use_history = FALSE
  /\ context = <<>>
  /\ reasoning_instruction \in ExplicitInstructions
  /\ prompt = <<>>
  /\ full_messages = <<>>
  /\ llm_response = <<>>
  /\ answer = <<>>
  /\ error = ""
  /\ response = <<>>
  /\ calls = NoCalls
  /\ caught = {}
  /\ classifier_prompt = <<>>

\* build_prompt_from_config(config, documents, query, app_config, reasoning_instruction)
BuildPromptCall ==
  /\ pc = "build"
  /\ prompt' = build_prompt_from_config(prompt_config, retrieved.value, query, app_config,
                                        reasoning_instruction)
  /\ pc' = "built"
  /\ UNCHANGED << store, app_config, prompt_config, turns, session, query, detected_lang,
                  params, index_outcome, retrieved, past_messages, chat_history, chat_text,
                  last_turn, use_history, context, reasoning_instruction, full_messages,
                  llm_response, answer, error, response, calls, caught,
                  classifier_prompt >>

NextPrompt == BuildPromptCall \/ BuildPrompt

SpecPrompt == InitPrompt /\ [][NextPrompt]_vars

(***************************************************************************)
(* Vocabulary of the properties.                                           *)
(***************************************************************************)
\* needle in text, for a non-empty needle
Contains(text, needle) ==
  \E i \in 1..(Len(text) - Len(needle) + 1) :
     SubSeq(text, i, i + Len(needle) - 1) = needle

StartsWith(text, prefix) ==
  /\ Len(prefix) <= Len(text)
  /\ SubSeq(text, 1, Len(prefix)) = prefix

\* the index answered with parallel lists
ParallelAnswer == pc = "called" /\ ~index_outcome.raised /\ WellFormed(index_outcome.value)

AnswerDocs == index_outcome.value["documents"][1]
AnswerDists == index_outcome.value["distances"][1]
AnswerMetas == index_outcome.value["metadatas"][1]

\* the positions of the answer whose distance is strictly under the threshold
Qualifying == { i \in 1..Len(AnswerDocs) : AnswerDists[i] < params.threshold }

\* list is the formatted results at the positions of idx, in the index's order
IsSelection(list, idx) ==
  \E f \in [1..Len(list) -> 1..Len(AnswerDocs)] :
     /\ { f[k] : k \in 1..Len(list) } = idx
     /\ \A j, k \in 1..Len(list) : j < k => f[j] < f[k]
     /\ \A k \in 1..Len(list) : list[k] = format_review(AnswerDocs[f[k]], AnswerMetas[f[k]])

\* the stages of respond after the history decision
AfterDecision == { "build", "generate", "translate", "markdown", "returned" }

\* the main LLM call has been made
MainCalled == calls.main = 1

\* the last n messages of msgs
LastMessages(msgs, n) == SubSeq(msgs, Len(msgs) - n + 1, Len(msgs))

\* the text of the two most recent stored turns of the session
TwoLastRawTurns ==
  LET raw == store[session]
  IN  raw[Len(raw) - 1].content \o <<"\n">> \o raw[Len(raw)].content

HistoryBlock == <<"Historico:\n">> \o TwoLastRawTurns

\* the prompt of the main LLM call
SentPrompt == full_messages[Len(full_messages)].content

\* the prompt holds one Reasoning Strategy section, with this instruction
HasReasoning(p, instruction) ==
  /\ Cardinality({ i \in 1..Len(p) : p[i] = "Reasoning Strategy:" }) = 1
  /\ Contains(p, <<"\n\n", "Reasoning Strategy:", "\n", "- ">> \o instruction
                   \o <<"\n\n", "Context:\n">>)

NoReasoning(p) == \A i \in 1..Len(p) : p[i] # "Reasoning Strategy:"

PromptBuilt == pc \in {"built", "generate"}

\* the configuration names a default strategy whose instruction is non-empty
NamesDefault(cfg) ==
  /\ "reasoning_strategies" \in DOMAIN cfg
  /\ "default" \in DOMAIN cfg["reasoning_strategies"]
  /\ cfg["reasoning_strategies"]["default"] \in DOMAIN cfg["reasoning_strategies"]
  /\ cfg["reasoning_strategies"][cfg["reasoning_strategies"]["default"]] # ""

DefaultInstruction(cfg) == cfg["reasoning_strategies"][cfg["reasoning_strategies"]["default"]]

HasCoT(cfg) ==
  /\ "reasoning_strategies" \in DOMAIN cfg
  /\ "CoT" \in DOMAIN cfg["reasoning_strategies"]

\* the configured token budget and window, with the defaults of an absent key
Budget ==
  IF "memory_strategies" \in DOMAIN app_config
       /\ "summarization_max_tokens" \in DOMAIN app_config["memory_strategies"]
    THEN app_config["memory_strategies"]["summarization_max_tokens"]
    ELSE 1000

ConfiguredWindow ==
  IF "memory_strategies" \in DOMAIN app_config
       /\ "trimming_window_size" \in DOMAIN app_config["memory_strategies"]
    THEN app_config["memory_strategies"]["trimming_window_size"]
    ELSE 6

IsSummaryTurn(history) ==
  /\ Len(history) = 1
  /\ StartsWith(history[1].content, <<"Summary of previous conversation:\n">>)

(***************************************************************************)
(* The properties.                                                         *)
(***************************************************************************)
\* C1: for every threshold and every answer of parallel lists,
\* retrieve_relevant_reviews returns exactly the formatted results whose distance
\* is strictly under the threshold, in the order of the index: none at or over
\* the threshold, none dropped, none moved.
C1_ExactFilter ==
  ParallelAnswer =>
    /\ ~retrieved.raised
    /\ IsSelection(retrieved.value, Qualifying)

\* C1 witness: an answer with one result under the threshold, kept, and one
\* exactly at the threshold, left out.
C1_Witness ==
  /\ ParallelAnswer
  /\ Len(AnswerDocs) = 2
  /\ AnswerDists[1] = params.threshold
  /\ AnswerDists[2] < params.threshold
  /\ retrieved = Returned(<< format_review(AnswerDocs[2], AnswerMetas[2]) >>)

\* C2: the messages of the main LLM call are the history after windowing and
\* summarization (chat_history) followed by one message holding the prompt.
C2_MainCallGetsProcessedHistory ==
  MainCalled => full_messages = chat_history \o << HumanMessage(prompt) >>

\* C3: with two or more stored turns, the prompt sent to the LLM holds the
\* "Historico:" block with the text of the two most recent raw turns when the
\* classifier said yes, and no such block when it said no.
C3_HistoryBlockInPrompt ==
  (MainCalled /\ Len(store[session]) >= 2) =>
    IF use_history
      THEN Contains(SentPrompt, HistoryBlock)
      ELSE ~Contains(SentPrompt, <<"Historico:\n">>)

\* C4: whatever the non-negative window size, the history respond keeps after
\* loading is the last min(N, window_size * 2) of the N stored turns, in order.
C4_WindowIsTail ==
  pc = "summarize" =>
    chat_history = LastMessages(store[session],
                                Min(Len(store[session]), ConfiguredWindow * 2))

\* C5: when the main LLM call raises, the exception leaves respond and the
\* handler writes no assistant turn for the failed input.
C5_NoAssistantTurnAfterFailure ==
  [][(pc = "save_ai" /\ error = "generate") => store'[session] = store[session]]_vars

\* C6: for n_results <= 0 and for every malformed answer of the index,
\* retrieve_relevant_reviews returns the empty list and does not raise.
C6_MalformedGivesEmpty ==
  (pc = "called"
     /\ (params.n_results <= 0 \/ (~index_outcome.raised /\ ~WellFormed(index_outcome.value))))
    => retrieved = Returned(<<>>)

\* C7 as written: a non-empty explicit instruction is the Reasoning Strategy
\* section; otherwise the section is the instruction of the default strategy the
\* configuration names, when that is non-empty; otherwise there is no section.
C7_DefaultStrategyRule ==
  PromptBuilt =>
    IF reasoning_instruction # "" THEN HasReasoning(prompt, <<reasoning_instruction>>)
    ELSE IF NamesDefault(app_config)
      THEN HasReasoning(prompt, <<DefaultInstruction(app_config)>>)
    ELSE NoReasoning(prompt)

\* C7 amended: a non-empty explicit instruction is the Reasoning Strategy
\* section; otherwise the section is rendered exactly when reasoning_strategies
\* has the key "CoT", with the instruction of "CoT" even when that is empty and
\* whatever strategy is named as default; otherwise there is no section.  The
\* instruction respond passes is the one of the strategy named by "default"
\* ("CoT" when no default is named), empty when the configuration has none.
C7_CoTFallbackRule ==
  /\ PromptBuilt =>
       IF reasoning_instruction # "" THEN HasReasoning(prompt, <<reasoning_instruction>>)
       ELSE IF HasCoT(app_config)
         THEN HasReasoning(prompt, TextOf(app_config["reasoning_strategies"]["CoT"]))
       ELSE NoReasoning(prompt)
  /\ pc = "generate" =>
       reasoning_instruction =
         IF NamesDefault(app_config) THEN DefaultInstruction(app_config)
         ELSE IF HasCoT(app_config)
                   /\ "default" \notin DOMAIN app_config["reasoning_strategies"]
           THEN app_config["reasoning_strategies"]["CoT"]
         ELSE ""

\* C7 witness: no explicit instruction, the default strategy named is not "CoT"
\* and has no instruction, and the prompt holds the instruction of "CoT".
C7_Witness ==
  /\ pc = "generate"
  /\ reasoning_instruction = ""
  /\ HasCoT(app_config)
  /\ "default" \in DOMAIN app_config["reasoning_strategies"]
  /\ app_config["reasoning_strategies"]["default"] = "ToT"
  /\ HasReasoning(prompt, <<"think step by step">>)

\* C8 as written: the summarization is attempted exactly when the token count of
\* the windowed text exceeds the budget, and once attempted the history is one
\* turn starting with the marker.
C8_SummaryAlwaysReplaces ==
  pc = "decide" =>
    /\ (calls.summary = 1) <=> (Len(chat_text) > Budget)
    /\ calls.summary = 1 => IsSummaryTurn(chat_history)

\* C8 amended: the summarization is attempted exactly when the token count of
\* the windowed text exceeds the budget, and once attempted, if the summarization
\* call returned, the history is one turn starting with the marker.
C8_SummaryReplacesOnSuccess ==
  pc = "decide" =>
    /\ calls.summary \in {0, 1}
    /\ (calls.summary = 1) <=> (Len(chat_text) > Budget)
    /\ (calls.summary = 1 /\ "summary" \notin caught) => IsSummaryTurn(chat_history)

\* C8 witness: a history of two turns over the budget, summarized.
C8_Witness ==
  /\ pc = "decide"
  /\ Len(past_messages) = 2
  /\ calls.summary = 1
  /\ "summary" \notin caught
  /\ IsSummaryTurn(chat_history)

\* C9: if the summarization call raises, the windowed history is left as it
\* was and respond goes on to the history decision; nothing is raised.
C9_SummaryFailureKeepsWindow ==
  [][(pc = "summarize" /\ "summary" \in caught')
       => (chat_history' = chat_history /\ pc' = "decide" /\ error' = "")]_vars

\* C9 witness: the summarization of a non-empty window has failed and the window
\* is still there.
C9_Witness ==
  /\ pc = "decide"
  /\ "summary" \in caught
  /\ chat_history # <<>>
  /\ chat_history = past_messages

\* C10: with fewer than two stored turns respond makes no classifier call and
\* use_history is false; with two or more it makes exactly one, whose prompt
\* holds the current query and the text of the two most recent raw turns.
C10_ClassifierCalls ==
  /\ pc \in {"detect", "retrieve", "load", "summarize", "decide"} => calls.classifier = 0
  /\ pc \in AfterDecision =>
       IF Len(store[session]) < 2
         THEN calls.classifier = 0 /\ ~use_history
         ELSE /\ calls.classifier = 1
              /\ classifier_prompt = check_prompt(query, TwoLastRawTurns)

\* C10 witness: the classifier was consulted about a query that differs from
\* the question of the last stored turns, after the history was summarized.
C10_Witness ==
  /\ pc = "build"
  /\ calls.classifier = 1
  /\ Len(store[session]) >= 2
  /\ store[session][Len(store[session]) - 1].content # query
  /\ IsSummaryTurn(chat_history)

\* the texts translate may hand back for the raw LLM response and the detected
\* language as target
TranslatedTexts ==
  { o.value : o \in { t \in TranslateOutcomes(llm_response, detected_lang) : ~t.raised } }

\* the texts fix_markdown_response may hand back for a text
MarkdownFixed(text) == { fix_markdown_response(text, r) : r \in MarkdownReplies(text) }

C12_PortugueseReturnedRaw ==
  (pc = "returned" /\ detected_lang = "pt") =>
     /\ answer = llm_response
     /\ calls.translate = 0
     /\ calls.markdown = 0

\* C12 witness: a Portuguese question was answered with the raw LLM response.
C12_Witness ==
  /\ pc = "returned"
  /\ detected_lang = "pt"
  /\ calls.main = 1
  /\ answer = <<"a1">>

\* the stages of respond after the retrieval, its two ends included
AfterRetrieval ==
  { "load", "summarize", "decide", "build", "generate", "translate", "markdown",
    "returned", "raised" }

\* the stages of respond after the prompt was built
AfterBuild == { "generate", "translate", "markdown", "returned" }

\* C13: if the embedding or the query of the index raised, the retrieval gave
\* the empty list, the error was caught and is not what ends respond, and the
\* turn goes on with no retrieved reviews: the prompt is built from none.
C13_QueryErrorGivesEmpty ==
  (pc \in AfterRetrieval /\ index_outcome.raised) =>
     /\ retrieved = Returned(<<>>)
     /\ "query" \in caught
     /\ error # "retrieve"
     /\ pc \in AfterBuild =>
          prompt = build_prompt_from_config(prompt_config, <<>>, query, app_config,
                                            reasoning_instruction)

\* C13 witness: the query raised and respond returned an answer all the same.
C13_Witness ==
  /\ pc = "returned"
  /\ index_outcome.raised
  /\ calls.main = 1
  /\ answer # <<>>

\* the index answered, with no document
ZeroDocuments ==
  /\ ~index_outcome.raised
  /\ "documents" \in DOMAIN index_outcome.value
  /\ index_outcome.value["documents"] \in { <<>>, << <<>> >> }

\* the body of the section of p that starts at the atom title: what follows the
\* title up to the next blank line, or to the end of p
SectionBody(p, title) ==
  LET i == CHOOSE k \in 1..Len(p) : p[k] = title
      ends == { k \in (i + 1)..Len(p) : p[k] = "\n\n" }
      j == IF ends = {} THEN Len(p) + 1 ELSE CHOOSE k \in ends : \A m \in ends : k <= m
  IN  SubSeq(p, i + 1, j - 1)

\* the answers respond may return for the LLM response it got
AnswersOf(raw, lang) ==
  IF lang = "pt" THEN { raw }
  ELSE UNION { MarkdownFixed(o.value) :
                 o \in { t \in TranslateOutcomes(raw, lang) : ~t.raised } }

\* C14: when the index answers with zero documents the retrieval gives the
\* empty list and raises nothing; the prompt respond builds has a Context
\* section with an empty body, the main LLM is called once with that prompt,
\* and what respond returns is the answer generated from it.
C14_EmptyIndexStillAnswers ==
  (pc \in AfterRetrieval /\ ZeroDocuments) =>
     /\ retrieved = Returned(<<>>)
     /\ error # "retrieve"
     /\ pc \in AfterBuild => SectionBody(prompt, "Context:\n") = <<>>
     /\ pc \in { "translate", "markdown", "returned" } =>
          (calls.main = 1 /\ SentPrompt = prompt)
     /\ pc = "returned" => answer \in AnswersOf(llm_response, detected_lang)

\* C14 witness: respond returned the LLM's answer to a prompt built on an index
\* answer of zero documents.
C14_Witness ==
  /\ pc = "returned"
  /\ ZeroDocuments
  /\ Contains(SentPrompt, <<"\n\n", "Context:\n", "\n\n", "User's question:\n">>)
  /\ answer = <<"a1">>

\* C15: if the LLM call of the history check raised, needs_history_context
\* gave false and the error was caught: it is not what ends respond, and the
\* turn goes on as one that needs no history.
C15_ClassifierErrorMeansNoHistory ==
  (pc \in AfterDecision \cup { "raised" } /\ "classifier" \in caught) =>
     /\ use_history = FALSE
     /\ calls.classifier = 1
     /\ pc = "raised" => error \in { "generate", "translate" }
     /\ pc \in AfterBuild => context = Context(retrieved.value, FALSE, last_turn, query)

\* C15 witness: the history check failed on a stored history of two turns and
\* respond returned an answer.
C15_Witness ==
  /\ pc = "returned"
  /\ "classifier" \in caught
  /\ Len(past_messages) >= 2
  /\ ~use_history
  /\ answer # <<>>

\* the title build_prompt_from_config gives to the section of each field
FieldTitle ==
  [ role |-> "Role:", style_or_tone |-> "Style / Tone:", instruction |-> "Instruction:",
    output_constraints |-> "Output Constraints:", output_format |-> "Output Format:" ]

\* a configured value with nothing in it
IsEmptyValue(v) ==
  IF v.kind = "str" THEN v.value = <<>> ELSE v.items = <<>>

AbsentOrEmpty(config, field) ==
  field \notin DOMAIN config \/ IsEmptyValue(config[field])

\* the number of times an atom occurs in a text
Occurrences(p, a) == Cardinality({ i \in 1..Len(p) : p[i] = a })

\* C16: for each of the fields role, style_or_tone, instruction,
\* output_constraints and output_format that is absent or empty, the prompt
\* built still holds the title of the section once, and the title's line is
\* followed by an empty body: no bullet line.
C16_EmptyFieldsGiveEmptyBody ==
  PromptBuilt =>
    \A f \in PromptFields :
       AbsentOrEmpty(prompt_config, f) =>
          /\ Occurrences(prompt, FieldTitle[f]) = 1
          /\ SectionBody(prompt, FieldTitle[f]) = <<"\n">>

\* the titles of the sections of a prompt, in the order of the claim; the
\* Reasoning Strategy section is optional
SectionTitles(p) ==
  <<"Role:", "Style / Tone:", "Instruction:", "Output Constraints:", "Output Format:">>
    \o (IF Occurrences(p, "Reasoning Strategy:") > 0 THEN <<"Reasoning Strategy:">> ELSE <<>>)
    \o <<"Context:\n", "User's question:\n">>

\* the place of an atom that occurs once in a text
PositionOf(p, a) == CHOOSE i \in 1..Len(p) : p[i] = a

\* C17: the prompt built is a function of the prompt configuration, the
\* documents, the query, the reasoning instruction and the application
\* configuration alone, and it is the sections Role, Style / Tone, Instruction,
\* Output Constraints, Output Format, at most one Reasoning Strategy, Context
\* (the documents joined by newlines) and User's question (the query), each
\* once, in that order, with one blank line between two sections.
C17_PromptIsOrderedSections ==
  PromptBuilt =>
    LET titles == SectionTitles(prompt) IN
    /\ prompt = build_prompt_from_config(prompt_config, retrieved.value, query, app_config,
                                         reasoning_instruction)
    /\ \A k \in 1..Len(titles) : Occurrences(prompt, titles[k]) = 1
    /\ \A j, k \in 1..Len(titles) :
          j < k => PositionOf(prompt, titles[j]) < PositionOf(prompt, titles[k])
    /\ PositionOf(prompt, titles[1]) = 1
    /\ \A k \in 2..Len(titles) : prompt[PositionOf(prompt, titles[k]) - 1] = "\n\n"
    /\ Occurrences(prompt, "\n\n") = Len(titles) - 1
    /\ SectionBody(prompt, "Context:\n") = JoinNL(retrieved.value)
    /\ SectionBody(prompt, "User's question:\n") = query

\* C17 witness: a prompt built from the full configuration, two documents and a
\* reasoning instruction: eight sections.
C17_Witness ==
  /\ pc = "built"
  /\ prompt_config = FullPromptConfig
  /\ Len(retrieved.value) = 2
  /\ Occurrences(prompt, "Reasoning Strategy:") = 1
  /\ Occurrences(prompt, "\n\n") = 7

\* a is a prefix of b
IsPrefix(a, b) == Len(a) <= Len(b) /\ SubSeq(b, 1, Len(a)) = a

\* the step is a clear of some session
ClearStep == \E s \in Sessions : clear_chat_history(s)

\* C18: in every step that is not an explicit clear, the stored history of
\* every session before the step is a prefix of its stored history after it:
\* stored turns are never changed, reordered or deleted, by windowing and
\* summarization no more than by anything else.
C18_StoreGrowsAtTail ==
  [][ ~ClearStep => \A s \in Sessions : IsPrefix(store[s], store'[s]) ]_vars

\* C18 witness: two handled inputs, their four turns stored in order, the
\* second handled with a window that is shorter than the history.
C18_Witness ==
  /\ pc = "idle"
  /\ Len(store["default"]) = 4
  /\ store["default"][1].type = "human"
  /\ store["default"][4].type = "ai"
  /\ ConfiguredWindow = 0

\* the positions of the steps respond takes
RespondStages ==
  { "detect", "retrieve", "load", "summarize", "decide", "build", "generate",
    "translate", "markdown" }

\* C19: no step of respond changes the stored history, whichever way respond
\* ends, and the stored history of the session changes, a clear aside, only in
\* the caller's two appends after respond has returned or raised.
C19_RespondLeavesStore ==
  [][ /\ (pc \in RespondStages /\ ~ClearStep) => store' = store
      /\ (store' # store /\ ~ClearStep) => pc \in { "save_user", "save_ai" } ]_vars

\* C19 witness: respond has ended in an exception after it summarized a stored
\* history of two turns, and the store still holds the two turns.
C19_Witness ==
  /\ pc = "raised"
  /\ calls.summary = 1
  /\ Len(store[session]) = 2
  /\ store[session] = past_messages

\* C20: a clear of a session leaves the history of that session empty, whether
\* it held turns or was empty already, raises nothing and touches no other
\* session; the state it leaves is one in which the session can be cleared
\* again, with the same result.
C20_ClearIsIdempotent ==
  [][ \A s \in Sessions :
        clear_chat_history(s) =>
          /\ store'[s] = <<>>
          /\ \A t \in Sessions \ { s } : store'[t] = store[t]
          /\ pc' = pc
          /\ error' = error ]_vars

\* C20 witness: the turns of a handled input were stored in the session and
\* the session is empty again.
C20_Witness ==
  /\ pc = "idle"
  /\ turns >= 1
  /\ session = "default"
  /\ store["default"] = <<>>
  /\ store["other"] # <<>>

\* the retrieval settings of the configuration, with the defaults of an absent
\* key: 5 results, threshold 0.3 (in hundredths)
ConfiguredRetrieval ==
  LET section == IF "vectordb" \in DOMAIN app_config THEN app_config["vectordb"] ELSE <<>>
  IN  [ n_results |-> IF "n_results" \in DOMAIN section THEN section["n_results"] ELSE 5,
        threshold |-> IF "threshold" \in DOMAIN section THEN section["threshold"] ELSE 30 ]

C22_DetectionFailureNotFatal ==
  /\ pc \in AfterRetrieval \cup { "retrieve" } => detected_lang \in LanguageCodes \cup { "unknown" }
  /\ (detected_lang = "unknown" /\ llm_response # <<>>) => pc # "raised"

ClaimedOrder ==
  << "detect", "retrieve", "load", "summarize", "decide", "build", "generate",
     "translate", "markdown", "returned" >>

\* b is the stage that follows a in the claimed order
Follows(a, b) ==
  \E k \in 1..(Len(ClaimedOrder) - 1) : ClaimedOrder[k] = a /\ ClaimedOrder[k + 1] = b

\* the stage in which each external call is made
StageOfCall ==
  [ summary |-> "summarize", classifier |-> "decide", main |-> "generate",
    translate |-> "translate", markdown |-> "markdown" ]

\* C24: every step of respond goes from a stage to the next one of the order
\* detection, retrieval, history load, summarization, history decision, prompt
\* build, generation, translation, done (or leaves respond by an exception):
\* no stage is entered twice or before the one ahead of it has ended.  Each
\* call is made in its own stage and at most once; the translation is the only
\* stage that is passed over; the summarization call is the other optional
\* one, and a respond that is done has made its main call.
C24_StagesInOrder ==
  [][ (pc \in RespondStages /\ pc' # pc) =>
        /\ \/ Follows(pc, pc')
           \/ pc' = "raised"
           \/ pc = "translate" /\ pc' = "returned" /\ calls' = calls
        /\ \A c \in DOMAIN calls :
             /\ calls'[c] <= 1
             /\ calls'[c] # calls[c] => pc = StageOfCall[c]
        /\ pc' = "returned" => calls'.main = 1 ]_vars

\* C24 witness: a respond that is done after every stage ran, the two optional
\* ones included.
C24_Witness ==
  /\ pc = "returned"
  /\ calls = [summary |-> 1, classifier |-> 1, main |-> 1, translate |-> 1, markdown |-> 1]

\* C25: on the translation branch, if the LLM call of the Markdown repair
\* raised, the error was caught and respond returns the translation of the
\* LLM response to the detected language, as translate gave it.
C25_RepairFailureReturnsTranslation ==
  ("markdown" \in caught) =>
     /\ pc = "returned"
     /\ detected_lang # "pt"
     /\ calls.markdown = 1
     /\ answer \in TranslatedTexts

\* C25 witness: the repair failed and the answer is the translation to "en".
C25_Witness ==
  /\ pc = "returned"
  /\ "markdown" \in caught
  /\ answer = <<"tr:", "en", "a1">>

\* the prompt respond builds from the query, the retrieval result and the
\* configuration
PromptOf(documents) ==
  build_prompt_from_config(prompt_config, documents, query, app_config,
                           ReasoningInstruction(app_config))

Alternates(history) ==
  /\ Len(history) % 2 = 0
  /\ \A i \in 1..Len(history) :
        history[i].type = (IF i % 2 = 1 THEN "human" ELSE "ai")

\* C27: between two handled inputs the stored history of every session has
\* even length and alternates user turn, assistant turn, a user turn first,
\* whether respond returned or raised; while an input is handled, its user turn
\* is stored before its assistant turn and nothing else is.
C27_HistoryAlternates ==
  \A s \in Sessions :
     IF pc = "save_ai" /\ s = session
       THEN /\ Alternates(SubSeq(store[s], 1, Len(store[s]) - 1))
            /\ store[s][Len(store[s])] = HumanMessage(query)
       ELSE Alternates(store[s])

\* C27 witness: two inputs handled in one session, respond raised on the
\* second, and the four turns are stored in alternation.
C27_Witness ==
  /\ pc = "idle"
  /\ Len(store["default"]) = 4
  /\ store["default"][2] = AIMessage(<<"a1">>)
  /\ store["default"][4] = AIMessage(ErrorMessage)

====
